---- MODULE Spec2Model ----
(***************************************************************************)
(* A model of src/conv_net.py: the convolutional sequence-to-sequence      *)
(* network (Encoder, Decoder, Seq2Seq).                                    *)
(*                                                                         *)
(* A tensor is modelled by its shape and, along its sequence axis, one     *)
(* abstract cell per position.  A cell records what the float at that      *)
(* position was computed from: the largest target position it read (trg),  *)
(* whether it read a source token (src), which random-generator states it  *)
(* read through dropout (rng), and whether it is a padding slot holding a  *)
(* known fill value (pad, val).  Every tensor operation of the code is an  *)
(* operator that computes the result's shape by the library's shape rule   *)
(* and the result's cells by the operation's data flow; the float values   *)
(* themselves are not represented.                                         *)
(*                                                                         *)
(* Positions are 0-based in the code; position t is stored at cells[t+1].  *)
(***************************************************************************)
EXTENDS Integers, Sequences, FiniteSets, TLC

VARIABLES
    encoder,    \* the Encoder object (attributes set by Encoder.__init__)
    decoder,    \* the Decoder object (attributes set by Decoder.__init__)
    training,   \* nn.Module.training of the model (True after construction)
    pc,         \* position in construction / Seq2Seq.forward
    args,       \* (src, trg) of the call in progress, and the generator state
    frame,      \* local variables of the running forward(): name -> tensor
    i,          \* loop index of `for i, conv in enumerate(self.convs)`
    enc_out,    \* (encoder_conved, encoder_combined) held by Seq2Seq.forward
    attn_calls, \* layers at which calculate_attention ran, in call order
    result,     \* what the last finished call returned or raised
    prev,       \* the finished call before it (<<>> when none)
    calls       \* number of finished calls

vars == <<encoder, decoder, training, pc, args, frame, i, enc_out,
          attn_calls, result, prev, calls>>

----------------------------------------------------------------------------
(* Bounds of the model *)

MaxBatch == 2
MaxLen == 3
MaxKernel == 3
MaxLayers == 2
NumSeeds == 2

(* Constructor arguments the model fixes *)
InputDim == 3
OutputDim == 4
EmbDim == 2
HidDim == 3
PadIdx == 1

(* nn.Embedding(100, emb_dim): the position tables *)
EncPosCapacity == 100
DecPosCapacity == 100

----------------------------------------------------------------------------
(* Cells *)

Max(a, b) == IF a >= b THEN a ELSE b

MaxOf(S) == CHOOSE m \in S : \A x \in S : x <= m

\* a computed value that read no input
NoDep == [pad |-> FALSE, val |-> 0, trg |-> -1, src |-> FALSE, rng |-> {}]

\* a padding slot filled with the known value v
PadCell(v) == [pad |-> TRUE, val |-> v, trg |-> -1, src |-> FALSE, rng |-> {}]

\* the value computed from c and d
Join(c, d) ==
    [pad |-> FALSE, val |-> 0, trg |-> Max(c.trg, d.trg),
     src |-> c.src \/ d.src, rng |-> c.rng \cup d.rng]

\* the value computed from every cell of the set S (and parameters)
JoinSet(S) ==
    [pad |-> FALSE, val |-> 0, trg |-> MaxOf({c.trg : c \in S} \cup {-1}),
     src |-> \E c \in S : c.src, rng |-> UNION {c.rng : c \in S}]

JoinAll(cs) == JoinSet({cs[j] : j \in DOMAIN cs})

\* a value computed from c alone
Compute(c) == Join(c, NoDep)

----------------------------------------------------------------------------
(* Tensors *)

NoTensor == [shape |-> <<>>, cells |-> <<>>, layer |-> -1]

Tensor(shape, cells) == [shape |-> shape, cells |-> cells, layer |-> -1]

\* a variant that leaves the axes where they are
NoPermute(x) == x

\* tensor.permute(0, 2, 1)
Permute021(x) ==
    [x EXCEPT !.shape = <<x.shape[1], x.shape[3], x.shape[2]>>]

\* broadcasting of two shapes of the same rank
Broadcastable(s, u) ==
    /\ Len(s) = Len(u)
    /\ \A d \in 1..Len(s) : s[d] = u[d] \/ s[d] = 1 \/ u[d] = 1

BroadcastShape(s, u) == [d \in 1..Len(s) |-> Max(s[d], u[d])]

\* x + y, elementwise with broadcasting
AddOk(x, y) == Broadcastable(x.shape, y.shape)

Add(x, y) ==
    LET n == Max(Len(x.cells), Len(y.cells))
        at(z, t) == IF Len(z.cells) = n THEN z.cells[t] ELSE z.cells[1]
    IN  Tensor(BroadcastShape(x.shape, y.shape),
               [t \in 1..n |-> Join(at(x, t), at(y, t))])

\* x * self.scale: scale has shape [1], a parameter-free constant
Scale(x) == Tensor(x.shape, [t \in 1..Len(x.cells) |-> Compute(x.cells[t])])

\* a variant that drops in either mode
DropoutAlways(x, train, seed) ==
    [x EXCEPT !.cells = [t \in 1..Len(x.cells) |->
                    [Compute(x.cells[t]) EXCEPT !.rng = x.cells[t].rng \cup {seed}]]]

\* nn.Dropout(dropout)(x) with dropout > 0: in training mode each element is
\* zeroed or rescaled by a mask drawn from the random generator (state seed);
\* in inference mode the input is passed through
Dropout(x, train, seed) ==
    IF train
    THEN [x EXCEPT !.cells = [t \in 1..Len(x.cells) |->
                        [Compute(x.cells[t]) EXCEPT !.rng = x.cells[t].rng \cup {seed}]]]
    ELSE x

\* an integer index tensor [batch, len]: its shape, its largest entry and the
\* input it holds ("src", "trg" or "pos")
Indices(kind, batch, len, maxId) ==
    [kind |-> kind, shape |-> <<batch, len>>, maxId |-> maxId]

\* a variant that clamps the positions to the last row of the position table
ArangeClamped(batch, len) ==
    Indices("pos", batch, len, IF len - 1 < 99 THEN len - 1 ELSE 99)

\* torch.arange(0, len).unsqueeze(0).repeat(batch, 1)
Arange(batch, len) == Indices("pos", batch, len, len - 1)

\* nn.Embedding(num, dim)(idx): every index must lie in 0..num-1
EmbeddingOk(idx, num) == idx.maxId < num

TokenCell(kind, t) ==
    [pad |-> FALSE, val |-> 0, trg |-> IF kind = "trg" THEN t ELSE -1,
     src |-> kind = "src", rng |-> {}]

Embedding(idx, dim) ==
    Tensor(<<idx.shape[1], idx.shape[2], dim>>,
           [t \in 1..idx.shape[2] |-> TokenCell(idx.kind, t - 1)])

\* nn.Linear(inF, outF)(x) on x = [batch, len, inF]
LinearOk(x, inF) == Len(x.shape) = 3 /\ x.shape[3] = inF

Linear(x, outF) ==
    Tensor(<<x.shape[1], x.shape[2], outF>>,
           [t \in 1..Len(x.cells) |-> Compute(x.cells[t])])

\* length of the output of a stride-1 convolution
ConvOutLen(len, k, padding) == len + 2 * padding - k + 1

\* nn.Conv1d(inC, outC, k, padding=padding)(x) on x = [batch, inC, len]
Conv1dOk(x, inC, k, padding) ==
    /\ Len(x.shape) = 3
    /\ x.shape[2] = inC
    /\ k >= 1
    /\ padding >= 0
    /\ ConvOutLen(x.shape[3], k, padding) >= 1

\* output position t (1-based) reads input positions t-padding .. t-padding+k-1;
\* those outside the input are implicit zeros
Conv1d(x, outC, k, padding) ==
    LET len == x.shape[3]
        window(t) == {j \in (t - padding)..(t - padding + k - 1) : j >= 1 /\ j <= len}
    IN  Tensor(<<x.shape[1], outC, ConvOutLen(len, k, padding)>>,
               [t \in 1..ConvOutLen(len, k, padding) |->
                    JoinSet({x.cells[j] : j \in window(t)})])

\* F.glu(x, dim=1) on x = [batch, channels, len]: channels must be even
GluOk(x) == Len(x.shape) = 3 /\ x.shape[2] % 2 = 0

Glu(x) ==
    Tensor(<<x.shape[1], x.shape[2] \div 2, x.shape[3]>>,
           [t \in 1..Len(x.cells) |-> Compute(x.cells[t])])

\* torch.zeros(batch, channels, n).fill_(v)
Full(batch, channels, n, v) ==
    Tensor(<<batch, channels, n>>, [t \in 1..n |-> PadCell(v)])

\* torch.cat((x, y), dim=2)
CatOk(x, y) ==
    /\ Len(x.shape) = 3 /\ Len(y.shape) = 3
    /\ x.shape[1] = y.shape[1] /\ x.shape[2] = y.shape[2]

Cat(x, y) ==
    Tensor(<<x.shape[1], x.shape[2], x.shape[3] + y.shape[3]>>, x.cells \o y.cells)

\* torch.matmul(a, b) on a = [batch, n, m], b = [batch, m, p]
MatMulOk(a, b) ==
    /\ Len(a.shape) = 3 /\ Len(b.shape) = 3
    /\ a.shape[3] = b.shape[2]
    /\ (a.shape[1] = b.shape[1] \/ a.shape[1] = 1 \/ b.shape[1] = 1)

\* row t of the product reads row t of a and all of b
MatMul(a, b) ==
    Tensor(<<Max(a.shape[1], b.shape[1]), a.shape[2], b.shape[3]>>,
           [t \in 1..Len(a.cells) |-> Join(a.cells[t], JoinAll(b.cells))])

\* F.softmax(x, dim=dim) on x = [batch, rows, cols] whose cells run along the
\* rows: over dim 2 each row is normalised by itself, over dim 1 every entry
\* reads its whole column, that is every row
Softmax(x, dim) ==
    Tensor(x.shape, [t \in 1..Len(x.cells) |->
                        IF dim = 1 THEN JoinAll(x.cells) ELSE Compute(x.cells[t])])

\* the value computed in iteration n of a layer loop
Stamp(x, n) == [x EXCEPT !.layer = n]

----------------------------------------------------------------------------
(* Objects and frames *)

\* An object: the constructor's arguments (n_layers, kernel_size, pad_idx), how
\* construction ended (state), and what it assigned: the attributes (attrs),
\* the number of convolutions in self.convs and their padding.
NotBuilt == [state |-> "none", n_layers |-> 0, kernel_size |-> 0, pad_idx |-> 0,
             attrs |-> {}, convs |-> 0, padding |-> 0]

EncoderAttrs == {"scale", "tok_embedding", "pos_embedding", "emb2hid", "hid2emb",
                 "convs", "dropout"}

DecoderAttrs == {"scale", "tok_embedding", "pos_embedding", "emb2hid", "hid2emb",
                 "attn_hid2emb", "attn_emb2hid", "out", "convs", "dropout"}

\* a variant without the assertion
KernelSizeAny(kernel_size) == TRUE

\* assert kernel_size % 2 == 1
KernelSizeOk(kernel_size) == kernel_size % 2 = 1

\* a variant that pads by the whole kernel reach on both sides
EncPaddingFull(kernel_size) == kernel_size - 1

\* padding=(kernel_size - 1) // 2 of the encoder's convolutions
EncPadding(kernel_size) == (kernel_size - 1) \div 2

\* nn.Conv1d(hid_dim, 2 * hid_dim, kernel_size) of the decoder: no padding
DecConvPadding == 0

\* a variant that pads one position per kernel tap
DecPadLenKernel(kernel_size) == kernel_size

\* the number of pad positions the decoder prepends: self.kernel_size - 1
DecPadLen(kernel_size) == kernel_size - 1

\* a variant that always creates a first convolution
RangeLenAtLeastOne(n_layers) == IF n_layers > 1 THEN n_layers ELSE 1

\* len(range(n_layers)): the number of convolutions the constructor creates
RangeLen(n_layers) == IF n_layers > 0 THEN n_layers ELSE 0

NoFrame == [n \in {} |-> NoTensor]

Bind(f, n, v) == [m \in (DOMAIN f) \cup {n} |-> IF m = n THEN v ELSE f[m]]

Bound(n) == n \in DOMAIN frame

NoArgs == [src |-> Indices("src", 0, 0, 0), trg |-> Indices("trg", 0, 0, 0), seed |-> 0]

NoEncOut == [conved |-> NoTensor, combined |-> NoTensor]

NoResult == [status |-> "none", exc |-> "", site |-> "", output |-> NoTensor,
             attention |-> NoTensor, args |-> NoArgs, training |-> FALSE]

Init ==
    /\ encoder = NotBuilt
    /\ decoder = NotBuilt
    /\ training = TRUE
    /\ pc = "new"
    /\ args = NoArgs
    /\ frame = NoFrame
    /\ i = 0
    /\ enc_out = NoEncOut
    /\ attn_calls = <<>>
    /\ result = NoResult
    /\ prev = <<>>
    /\ calls = 0

callVars == <<args, frame, i, enc_out, attn_calls, result, prev, calls>>

----------------------------------------------------------------------------
(* Construction *)

\* Encoder.__init__
EncoderInit(n_layers, kernel_size) ==
    /\ pc = "new"
    /\ IF ~KernelSizeOk(kernel_size)
       THEN /\ encoder' = [NotBuilt EXCEPT !.state = "AssertionError",
                                         !.n_layers = n_layers,
                                         !.kernel_size = kernel_size]
            /\ pc' = "construct_failed"
       ELSE /\ encoder' = [state |-> "built", n_layers |-> n_layers,
                           kernel_size |-> kernel_size, pad_idx |-> 0,
                           attrs |-> EncoderAttrs,
                           convs |-> RangeLen(n_layers),
                           padding |-> EncPadding(kernel_size)]
            /\ pc' = "enc_built"
    /\ UNCHANGED <<decoder, training, callVars>>

\* Decoder.__init__
DecoderInit(n_layers, kernel_size, pad_idx) ==
    /\ pc = "enc_built"
    /\ decoder' = [state |-> "built", n_layers |-> n_layers,
                   kernel_size |-> kernel_size, pad_idx |-> pad_idx,
                   attrs |-> DecoderAttrs,
                   convs |-> RangeLen(n_layers),
                   padding |-> DecConvPadding]
    /\ pc' = "dec_built"
    /\ UNCHANGED <<encoder, training, callVars>>

\* Seq2Seq.__init__
Seq2SeqInit ==
    /\ pc = "dec_built"
    /\ pc' = "idle"
    /\ UNCHANGED <<encoder, decoder, training, callVars>>

\* model.train() / model.eval(): the caller sets the mode before invoking
SetMode(mode) ==
    /\ pc = "idle"
    /\ calls = 0
    /\ mode # training
    /\ training' = mode
    /\ UNCHANGED <<encoder, decoder, pc, callVars>>

----------------------------------------------------------------------------
(* Seq2Seq.forward: call and return *)

\* Seq2Seq.forward(src, trg) is entered; seed is the random generator's state.
\* A call after the first one repeats the first one's inputs.
Call(batch, src_len, trg_len, src_max, trg_max, seed) ==
    /\ pc = "idle"
    /\ args' = [src |-> Indices("src", batch, src_len, src_max),
                trg |-> Indices("trg", batch, trg_len, trg_max),
                seed |-> seed]
    /\ calls > 0 => (args'.src = result.args.src /\ args'.trg = result.args.trg)
    /\ pc' = "enc_embed"
    /\ frame' = NoFrame
    /\ i' = 0
    /\ enc_out' = NoEncOut
    /\ attn_calls' = <<>>
    /\ UNCHANGED <<encoder, decoder, training, result, prev, calls>>

\* the call ends with res: the frames are gone, the caller has res
Finish(res) ==
    /\ result' = res
    /\ prev' = IF calls = 0 THEN <<>> ELSE <<result>>
    /\ calls' = calls + 1
    /\ pc' = "idle"
    /\ frame' = NoFrame
    /\ enc_out' = NoEncOut
    /\ UNCHANGED <<encoder, decoder, training, args, i, attn_calls>>

\* an exception raised at site leaves forward(); nothing is returned
Raise(exc, site) ==
    Finish([status |-> "raised", exc |-> exc, site |-> site, output |-> NoTensor,
            attention |-> NoTensor, args |-> args, training |-> training])

\* return output, attention
Return(output, attention) ==
    Finish([status |-> "returned", exc |-> "", site |-> "", output |-> output,
            attention |-> attention, args |-> args, training |-> training])

\* a step inside forward() that assigns the locals in f and moves to next
Step(f, next) ==
    /\ frame' = f
    /\ pc' = next
    /\ UNCHANGED <<encoder, decoder, training, args, i, enc_out,
                   attn_calls, result, prev, calls>>

----------------------------------------------------------------------------
(* Encoder.forward *)

\* pos, tok_embedded, pos_embedded, embedded
EncEmbed ==
    /\ pc = "enc_embed"
    /\ LET src == args.src
           pos == Arange(src.shape[1], src.shape[2])
       IN  IF ~EmbeddingOk(src, InputDim)
           THEN Raise("IndexError", "Encoder.tok_embedding")
           ELSE IF ~EmbeddingOk(pos, EncPosCapacity)
           THEN Raise("IndexError", "Encoder.pos_embedding")
           ELSE LET tok_embedded == Embedding(src, EmbDim)
                    pos_embedded == Embedding(pos, EmbDim)
                    embedded == Dropout(Add(tok_embedded, pos_embedded),
                                        training, args.seed)
                IN  Step(Bind(frame, "embedded", embedded), "enc_project")

\* conv_input = self.emb2hid(embedded).permute(0, 2, 1)
EncProject ==
    /\ pc = "enc_project"
    /\ IF ~LinearOk(frame["embedded"], EmbDim)
       THEN Raise("RuntimeError", "Encoder.emb2hid")
       ELSE Step(Bind(frame, "conv_input",
                      Permute021(Linear(frame["embedded"], HidDim))), "enc_loop")

\* conved = conv(self.dropout(conv_input)), loop iteration i
EncConv ==
    /\ pc = "enc_loop"
    /\ i < encoder.convs
    /\ LET x == Dropout(frame["conv_input"], training, args.seed)
       IN  IF ~Conv1dOk(x, HidDim, encoder.kernel_size, encoder.padding)
           THEN Raise("RuntimeError", "Encoder.conv")
           ELSE Step(Bind(frame, "conved",
                          Stamp(Conv1d(x, 2 * HidDim, encoder.kernel_size,
                                       encoder.padding), i)), "enc_glu")

\* conved = F.glu(conved, dim=1)
EncGlu ==
    /\ pc = "enc_glu"
    /\ IF ~GluOk(frame["conved"])
       THEN Raise("RuntimeError", "Encoder.glu")
       ELSE Step(Bind(frame, "conved", Stamp(Glu(frame["conved"]), i)), "enc_res")

\* conved = (conved + conv_input) * self.scale; conv_input = conved
EncResidual ==
    /\ pc = "enc_res"
    /\ IF ~AddOk(frame["conved"], frame["conv_input"])
       THEN Raise("RuntimeError", "Encoder.residual")
       ELSE LET conved == Stamp(Scale(Add(frame["conved"], frame["conv_input"])), i)
            IN  /\ frame' = Bind(Bind(frame, "conved", conved), "conv_input", conved)
                /\ pc' = "enc_loop"
                /\ i' = i + 1
                /\ UNCHANGED <<encoder, decoder, training, args, enc_out,
                               attn_calls, result, prev, calls>>

\* after the loop: conved = self.hid2emb(conved.permute(0, 2, 1));
\* combined = (conved + embedded) * self.scale; return conved, combined
\* to Seq2Seq.forward, which calls the decoder
EncReturn ==
    /\ pc = "enc_loop"
    /\ i >= encoder.convs
    /\ IF ~Bound("conved")
       THEN Raise("UnboundLocalError", "Encoder.conved")
       ELSE IF ~LinearOk(Permute021(frame["conved"]), HidDim)
       THEN Raise("RuntimeError", "Encoder.hid2emb")
       ELSE LET conved == Linear(Permute021(frame["conved"]), EmbDim)
            IN  IF ~AddOk(conved, frame["embedded"])
                THEN Raise("RuntimeError", "Encoder.combined")
                ELSE /\ enc_out' = [conved |-> conved,
                                    combined |-> Scale(Add(conved, frame["embedded"]))]
                     /\ frame' = NoFrame
                     /\ i' = 0
                     /\ pc' = "dec_embed"
                     /\ UNCHANGED <<encoder, decoder, training, args,
                                    attn_calls, result, prev, calls>>

----------------------------------------------------------------------------
(* Decoder.calculate_attention *)

\* F.softmax(energy, dim=2)
AttentionSoftmaxDim == 2

\* The first operation of calculate_attention that fails ("" when none does)
\* and, when none does, the two tensors it returns.
CalculateAttention(embedded, conved, encoder_conved, encoder_combined) ==
    LET conved_perm == Permute021(conved)
        conved_emb == Linear(conved_perm, EmbDim)
        combined == Scale(Add(embedded, conved_emb))
        keys == Permute021(encoder_conved)
        energy == MatMul(combined, keys)
        attention == Softmax(energy, AttentionSoftmaxDim)
        values == Add(encoder_conved, encoder_combined)
        attended == MatMul(attention, values)
        attended_encoding == Linear(attended, HidDim)
        attended_combined == Scale(Add(conved, Permute021(attended_encoding)))
        site == IF ~LinearOk(conved_perm, HidDim) THEN "Decoder.attn_hid2emb"
                ELSE IF ~AddOk(embedded, conved_emb) THEN "Decoder.attn_combined"
                ELSE IF ~MatMulOk(combined, keys) THEN "Decoder.energy"
                ELSE IF ~AddOk(encoder_conved, encoder_combined) THEN "Decoder.values"
                ELSE IF ~MatMulOk(attention, values) THEN "Decoder.attended_encoding"
                ELSE IF ~LinearOk(attended, EmbDim) THEN "Decoder.attn_emb2hid"
                ELSE IF ~AddOk(conved, Permute021(attended_encoding))
                     THEN "Decoder.attended_combined"
                ELSE ""
    IN  [site |-> site,
         attention |-> IF site = "" THEN attention ELSE NoTensor,
         attended_combined |-> IF site = "" THEN attended_combined ELSE NoTensor]

----------------------------------------------------------------------------
(* Decoder.forward *)

\* pos, tok_embedded, pos_embedded, embedded
DecEmbed ==
    /\ pc = "dec_embed"
    /\ LET trg == args.trg
           pos == Arange(trg.shape[1], trg.shape[2])
       IN  IF ~EmbeddingOk(trg, OutputDim)
           THEN Raise("IndexError", "Decoder.tok_embedding")
           ELSE IF ~EmbeddingOk(pos, DecPosCapacity)
           THEN Raise("IndexError", "Decoder.pos_embedding")
           ELSE LET tok_embedded == Embedding(trg, EmbDim)
                    pos_embedded == Embedding(pos, EmbDim)
                    embedded == Dropout(Add(tok_embedded, pos_embedded),
                                        training, args.seed)
                IN  Step(Bind(frame, "embedded", embedded), "dec_project")

\* conv_input = self.emb2hid(embedded).permute(0, 2, 1)
DecProject ==
    /\ pc = "dec_project"
    /\ IF ~LinearOk(frame["embedded"], EmbDim)
       THEN Raise("RuntimeError", "Decoder.emb2hid")
       ELSE Step(Bind(frame, "conv_input",
                      Permute021(Linear(frame["embedded"], HidDim))), "dec_loop")

\* a variant that pads behind the input instead of in front of it
PaddedConvInputRight(padding, conv_input) == Cat(conv_input, padding)

\* the padding tensor of iteration i and the input it is put in front of
PaddedConvInput(padding, conv_input) == Cat(padding, conv_input)

\* conv_input = self.dropout(conv_input); padding = torch.zeros(...).fill_(pad_idx);
\* padded_conv_input = torch.cat((padding, conv_input), dim=2)
DecPad ==
    /\ pc = "dec_loop"
    /\ i < decoder.convs
    /\ LET conv_input == Stamp(Dropout(frame["conv_input"], training, args.seed), i)
           n == DecPadLen(decoder.kernel_size)
       IN  IF n < 0
           THEN Raise("RuntimeError", "Decoder.padding")
           ELSE LET padding == Full(conv_input.shape[1], conv_input.shape[2], n,
                                    decoder.pad_idx)
                IN  IF ~CatOk(padding, conv_input)
                    THEN Raise("RuntimeError", "Decoder.cat")
                    ELSE Step(Bind(Bind(frame, "conv_input", conv_input),
                                   "padded_conv_input",
                                   Stamp(PaddedConvInput(padding, conv_input), i)),
                              "dec_conv")

\* conved = conv(padded_conv_input)
DecConv ==
    /\ pc = "dec_conv"
    /\ IF ~Conv1dOk(frame["padded_conv_input"], HidDim, decoder.kernel_size,
                    decoder.padding)
       THEN Raise("RuntimeError", "Decoder.conv")
       ELSE Step(Bind(frame, "conved",
                      Stamp(Conv1d(frame["padded_conv_input"], 2 * HidDim,
                                   decoder.kernel_size, decoder.padding), i)),
                 "dec_glu")

\* conved = F.glu(conved, dim=1)
DecGlu ==
    /\ pc = "dec_glu"
    /\ IF ~GluOk(frame["conved"])
       THEN Raise("RuntimeError", "Decoder.glu")
       ELSE Step(Bind(frame, "conved", Stamp(Glu(frame["conved"]), i)), "dec_attn")

\* a variant that keeps the attention of the first iteration
AssignAttentionOnce(f, attention, conved) ==
    IF "attention" \in DOMAIN f
    THEN Bind(f, "conved", conved)
    ELSE Bind(Bind(f, "attention", attention), "conved", conved)

\* attention, conved = ...: both locals are assigned in every iteration
AssignAttention(f, attention, conved) ==
    Bind(Bind(f, "attention", attention), "conved", conved)

\* attention, conved = self.calculate_attention(embedded, conved,
\*                                              encoder_conved, encoder_combined)
DecAttention ==
    /\ pc = "dec_attn"
    /\ LET r == CalculateAttention(frame["embedded"], frame["conved"],
                                   enc_out.conved, enc_out.combined)
       IN  IF r.site # ""
           THEN Raise("RuntimeError", r.site)
           ELSE /\ frame' = AssignAttention(frame, Stamp(r.attention, i),
                                            Stamp(r.attended_combined, i))
                /\ attn_calls' = Append(attn_calls, i)
                /\ pc' = "dec_res"
                /\ UNCHANGED <<encoder, decoder, training, args, i,
                               enc_out, result, prev, calls>>

\* conved = (conved + conv_input) * self.scale; conv_input = conved
DecResidual ==
    /\ pc = "dec_res"
    /\ IF ~AddOk(frame["conved"], frame["conv_input"])
       THEN Raise("RuntimeError", "Decoder.residual")
       ELSE LET conved == Stamp(Scale(Add(frame["conved"], frame["conv_input"])), i)
            IN  /\ frame' = Bind(Bind(frame, "conved", conved), "conv_input", conved)
                /\ pc' = "dec_loop"
                /\ i' = i + 1
                /\ UNCHANGED <<encoder, decoder, training, args, enc_out,
                               attn_calls, result, prev, calls>>

\* after the loop: conved = self.hid2emb(conved.permute(0, 2, 1));
\* output = self.out(self.dropout(conved)); return output, attention,
\* which Seq2Seq.forward returns unchanged
DecReturn ==
    /\ pc = "dec_loop"
    /\ i >= decoder.convs
    /\ IF ~Bound("conved")
       THEN Raise("UnboundLocalError", "Decoder.conved")
       ELSE IF ~LinearOk(Permute021(frame["conved"]), HidDim)
       THEN Raise("RuntimeError", "Decoder.hid2emb")
       ELSE LET conved == Dropout(Linear(Permute021(frame["conved"]), EmbDim),
                                  training, args.seed)
            IN  IF ~LinearOk(conved, EmbDim)
                THEN Raise("RuntimeError", "Decoder.out")
                ELSE IF ~Bound("attention")
                THEN Raise("UnboundLocalError", "Decoder.attention")
                ELSE Return(Linear(conved, OutputDim), frame["attention"])

----------------------------------------------------------------------------
(* Specifications *)

Batches == 1..MaxBatch
Seeds == 1..NumSeeds
Layers == 0..MaxLayers
Kernels == 1..MaxKernel
ShortLens == 1..MaxLen

\* one step of construction or of the forward pass
Forward ==
    \/ Seq2SeqInit
    \/ EncEmbed \/ EncProject \/ EncConv \/ EncGlu \/ EncResidual \/ EncReturn
    \/ DecEmbed \/ DecProject \/ DecPad \/ DecConv \/ DecGlu \/ DecAttention
    \/ DecResidual \/ DecReturn

\* Short sequences of valid tokens, in either mode; the caller makes a call
\* and then repeats it.
Next ==
    \/ \E n \in Layers, k \in {0} \cup Kernels : EncoderInit(n, k)
    \/ \E n \in Layers, k \in Kernels : DecoderInit(n, k, PadIdx)
    \/ \E mode \in BOOLEAN : SetMode(mode)
    \/ /\ calls < 2
       /\ \E s \in ShortLens, t \in ShortLens, seed \in Seeds :
             Call(MaxBatch, s, t, InputDim - 1, OutputDim - 1, seed)
    \/ Forward

Spec == Init /\ [][Next]_vars

\* the kernel sizes of the encoder around which the same-length property is stated
EncoderKernels == {0, 3, 5, 7}

\* lengths at the capacity of the position tables, and short ones
CapacityLens == {1, MaxLen, EncPosCapacity, EncPosCapacity + 1}

\* Sequences up to and beyond the position capacity, tokens inside and outside
\* the vocabulary, one call, in the mode the model is constructed in.
NextCapacity ==
    \/ \E n \in Layers, k \in EncoderKernels : EncoderInit(n, k)
    \/ \E n \in Layers, k \in Kernels : DecoderInit(n, k, PadIdx)
    \/ /\ calls = 0
       /\ \E b \in Batches, s \in CapacityLens, t \in CapacityLens,
             sm \in {InputDim - 1, InputDim}, tm \in {OutputDim - 1, OutputDim} :
             Call(b, s, t, sm, tm, 1)
    \/ Forward

SpecCapacity == Init /\ [][NextCapacity]_vars

----------------------------------------------------------------------------
(* Properties *)

DecoderPcs == {"dec_embed", "dec_project", "dec_loop", "dec_conv", "dec_glu",
               "dec_attn", "dec_res"}

Returned == pc = "idle" /\ result.status = "returned"

\* position t (0-based) of x was computed from target positions <= t only and
\* from no random draw
CausalAt(x, t) == x.cells[t + 1].trg <= t /\ x.cells[t + 1].rng = {}

Causal(x) == \A t \in 0..(Len(x.cells) - 1) : CausalAt(x, t)

\* C1. Decoder causality: with dropout disabled, position t of the logits, and
\* of every tensor the decoder computes on the way (the embedding, each layer's
\* convolution, gate, attention and residual), is a function of the encoder
\* outputs and of the target positions <= t: changing target tokens at
\* positions >= k leaves positions < k unchanged.
C1_Causality ==
    ~training =>
        /\ pc \in DecoderPcs =>
              \A n \in DOMAIN frame \ {"padded_conv_input"} : Causal(frame[n])
        /\ Returned => Causal(result.output) /\ Causal(result.attention)

\* two layers of kernel 3 over three target positions: every position's logits
\* do read that position, and the first one reads nothing later
C1_Witness ==
    /\ Returned /\ ~training
    /\ decoder.n_layers = 2 /\ decoder.kernel_size = 3
    /\ result.args.trg.shape[2] = 3
    /\ \A t \in 0..2 : result.output.cells[t + 1].trg = t

\* C7. Last-layer attention only: calculate_attention runs once per layer, in
\* layer order, after the layer's GLU and before its residual, and the
\* attention forward returns is the one of the last layer.
C7_LastLayerAttention ==
    /\ pc \in {"dec_loop", "dec_conv", "dec_glu", "dec_attn"} =>
          attn_calls = [n \in 1..i |-> n - 1]
    /\ pc = "dec_attn" => frame["conved"].layer = i /\ Len(frame["conved"].cells) > 0
    /\ pc = "dec_res" =>
          /\ attn_calls = [n \in 1..(i + 1) |-> n - 1]
          /\ frame["attention"].layer = i
    /\ Returned =>
          /\ attn_calls = [n \in 1..decoder.n_layers |-> n - 1]
          /\ result.attention.layer = decoder.n_layers - 1

C7_Witness ==
    /\ Returned
    /\ decoder.n_layers = 2
    /\ attn_calls = <<0, 1>>
    /\ result.attention.layer = 1

\* C9. Decoder causal padding: in every decoder layer exactly kernel_size - 1
\* positions holding pad_idx stand in front of the input and none behind it, and
\* the convolution of the padded input has length trg_len, for odd and even
\* kernel sizes.
C9_CausalPadding ==
    /\ pc = "dec_conv" =>
          LET padded == frame["padded_conv_input"]
              conv_input == frame["conv_input"]
              k == decoder.kernel_size
              len == args.trg.shape[2]
          IN  /\ conv_input.shape[3] = len
              /\ padded.shape[3] = len + k - 1
              /\ Len(padded.cells) = len + k - 1
              /\ \A j \in 1..(k - 1) : padded.cells[j] = PadCell(decoder.pad_idx)
              /\ \A j \in k..(len + k - 1) :
                    ~padded.cells[j].pad /\ padded.cells[j] = conv_input.cells[j - k + 1]
    /\ pc \in {"dec_glu", "dec_attn", "dec_res"} =>
          /\ frame["conved"].shape[3] = args.trg.shape[2]
          /\ Len(frame["conved"].cells) = args.trg.shape[2]
    /\ result.site \notin {"Decoder.padding", "Decoder.cat", "Decoder.conv"}

\* an even kernel size, in the second layer
C9_Witness ==
    /\ pc = "dec_glu"
    /\ decoder.kernel_size = 2
    /\ i = 1
    /\ args.trg.shape[2] = 3
    /\ frame["padded_conv_input"].shape[3] = 4
    /\ frame["conved"].shape[3] = 3

\* C5. Odd-kernel precondition: Encoder.__init__ with an even kernel_size ends
\* in the assertion failure with no attribute assigned, and no forward call
\* follows; with an odd kernel_size it builds the encoder; forward never raises
\* an assertion failure.
C5_OddKernel ==
    /\ encoder.state = "none" <=> pc = "new"
    /\ encoder.state = "AssertionError" <=> pc = "construct_failed"
    /\ encoder.state = "AssertionError" =>
          /\ encoder.kernel_size % 2 = 0
          /\ encoder.attrs = {} /\ encoder.convs = 0
          /\ calls = 0 /\ result = NoResult /\ frame = NoFrame
          /\ decoder = NotBuilt
    /\ encoder.state = "built" =>
          /\ encoder.kernel_size % 2 = 1
          /\ encoder.attrs = EncoderAttrs
    /\ result.exc # "AssertionError"

C5_Witness ==
    /\ encoder.state = "AssertionError"
    /\ encoder.kernel_size = 2
    /\ encoder.attrs = {}

\* the second of two finished calls with the same (src, trg), both in
\* inference mode
RepeatedInference ==
    /\ pc = "idle" /\ prev # <<>>
    /\ ~result.training /\ ~prev[1].training
    /\ result.args.src = prev[1].args.src
    /\ result.args.trg = prev[1].args.trg

SameOutcome(r, q) ==
    /\ r.status = q.status /\ r.exc = q.exc /\ r.site = q.site
    /\ r.output = q.output
    /\ r.attention = q.attention

\* C8. Deterministic inference: two calls of Seq2Seq.forward in inference mode
\* with the same (src, trg) end the same way with the same (logits, attention),
\* whatever the state of the random generator at each call, and no step of
\* forward changes the encoder, the decoder or the mode.
C8_DeterministicInference ==
    /\ [](RepeatedInference => SameOutcome(result, prev[1]))
    /\ [][pc \notin {"new", "enc_built", "dec_built", "idle"} =>
            encoder' = encoder /\ decoder' = decoder /\ training' = training]_vars

\* the two calls found the random generator in different states
C8_Witness ==
    /\ RepeatedInference
    /\ result.status = "returned"
    /\ result.args.seed # prev[1].args.seed
    /\ result.output.shape = <<MaxBatch, result.args.trg.shape[2], OutputDim>>

WithinVocabulary(a) == a.src.maxId < InputDim /\ a.trg.maxId < OutputDim

WithinCapacity(a) ==
    a.src.shape[2] <= EncPosCapacity /\ a.trg.shape[2] <= DecPosCapacity

\* C10. n_layers = 0: both constructors accept it, and then no forward call
\* returns: with inputs inside vocabulary and capacity the encoder ends reading
\* the unassigned local conved and, when the encoder has layers, the decoder
\* ends the same way.
C10_NoLayers ==
    /\ encoder.state = "AssertionError" => ~KernelSizeOk(encoder.kernel_size)
    /\ (pc = "idle" /\ calls > 0 /\ encoder.n_layers = 0) =>
          /\ result.status = "raised"
          /\ (WithinVocabulary(result.args) /\ WithinCapacity(result.args)) =>
                result.exc = "UnboundLocalError" /\ result.site = "Encoder.conved"
    /\ (pc = "idle" /\ calls > 0 /\ encoder.n_layers > 0 /\ decoder.n_layers = 0) =>
          /\ result.status = "raised"
          /\ (WithinVocabulary(result.args) /\ WithinCapacity(result.args)) =>
                result.exc = "UnboundLocalError" /\ result.site = "Decoder.conved"
    /\ pc \in {"enc_glu", "enc_res"} => encoder.n_layers > 0
    /\ pc \in {"dec_conv", "dec_glu", "dec_attn", "dec_res"} => decoder.n_layers > 0

\* the encoder has layers, the decoder has none, and the decoder's forward ended
\* at the read of conved
C10_Witness ==
    /\ pc = "idle"
    /\ encoder.state = "built" /\ encoder.n_layers = 2
    /\ decoder.state = "built" /\ decoder.n_layers = 0
    /\ result.exc = "UnboundLocalError" /\ result.site = "Decoder.conved"

Finished == pc = "idle" /\ calls > 0

\* C2. Shape invariance: for every batch size B and lengths S, T up to the
\* position capacity (layers >= 1, odd encoder kernel, tokens in vocabulary)
\* the call returns; the encoder's two outputs are (B, S, emb_dim), the logits
\* (B, T, output_dim) and the attention (B, T, S); the residual adds are between
\* tensors of one shape, and no operation is ever given operands of
\* incompatible shape.
C2_ShapeInvariance ==
    LET a == IF pc = "idle" THEN result.args ELSE args
        B == a.src.shape[1]
        S == a.src.shape[2]
        T == a.trg.shape[2]
    IN  /\ pc \in DecoderPcs =>
              /\ enc_out.conved.shape = <<B, S, EmbDim>>
              /\ enc_out.combined.shape = <<B, S, EmbDim>>
              /\ Len(enc_out.conved.cells) = S /\ Len(enc_out.combined.cells) = S
        /\ pc = "enc_res" =>
              /\ frame["conved"].shape = <<B, HidDim, S>>
              /\ frame["conv_input"].shape = <<B, HidDim, S>>
        /\ pc = "dec_res" =>
              /\ frame["conved"].shape = <<B, HidDim, T>>
              /\ frame["conv_input"].shape = <<B, HidDim, T>>
              /\ frame["attention"].shape = <<B, T, S>>
        /\ Returned =>
              /\ result.output.shape = <<B, T, OutputDim>>
              /\ result.attention.shape = <<B, T, S>>
              /\ Len(result.output.cells) = T /\ Len(result.attention.cells) = T
        /\ result.exc # "RuntimeError"
        /\ (/\ Finished
            /\ encoder.n_layers >= 1 /\ decoder.n_layers >= 1
            /\ WithinVocabulary(a) /\ WithinCapacity(a)) => Returned

\* both lengths at the capacity, a batch of two
C2_Witness ==
    /\ Returned
    /\ result.args.src.shape = <<2, EncPosCapacity>>
    /\ result.args.trg.shape = <<2, DecPosCapacity>>
    /\ encoder.kernel_size = 5
    /\ result.attention.shape = <<2, 100, 100>>

\* C4. Position capacity: with tokens in vocabulary, a source longer than 100
\* ends Encoder.forward with the index fault of the position lookup and a
\* target longer than 100 ends Decoder.forward the same way, nothing being
\* returned; with lengths up to 100 (and layers >= 1) neither forward faults.
C4_PositionCapacity ==
    LET a == result.args
        S == a.src.shape[2]
        T == a.trg.shape[2]
        PosFault(site) ==
            /\ result.status = "raised"
            /\ result.exc = "IndexError" /\ result.site = site
            /\ result.output = NoTensor /\ result.attention = NoTensor
    IN  (Finished /\ WithinVocabulary(a)) =>
            /\ S > 100 => PosFault("Encoder.pos_embedding")
            /\ (S <= 100 /\ encoder.n_layers >= 1) =>
                  /\ T > 100 => PosFault("Decoder.pos_embedding")
                  /\ (T <= 100 /\ decoder.n_layers >= 1) => Returned

\* the encoder took a source of length 100, the decoder faulted on a target of
\* length 101
C4_Witness ==
    /\ Finished
    /\ result.args.src.shape[2] = 100
    /\ result.args.trg.shape[2] = 101
    /\ result.exc = "IndexError" /\ result.site = "Decoder.pos_embedding"

\* C6. Encoder same-length convolution: for kernel_size in {3, 5, 7} and
\* src_len >= kernel_size every encoder stage keeps the sequence length: the
\* convolution's output, the gate's output and the residual sum are src_len
\* long, and the residual add is between tensors of equal shape.
C6_EncoderSameLength ==
    LET a == IF pc = "idle" THEN result.args ELSE args
        S == a.src.shape[2]
    IN  (encoder.kernel_size \in {3, 5, 7} /\ S >= encoder.kernel_size) =>
            /\ pc = "enc_glu" =>
                  /\ frame["conv_input"].shape[3] = S
                  /\ frame["conved"].shape[3] = S
            /\ pc = "enc_res" =>
                  /\ frame["conved"].shape = frame["conv_input"].shape
                  /\ Len(frame["conved"].cells) = S
            /\ (pc = "enc_loop" /\ i > 0) =>
                  /\ frame["conved"].shape[3] = S
                  /\ Len(frame["conved"].cells) = S
            /\ Finished => result.site \notin {"Encoder.conv", "Encoder.residual"}

\* kernel 7 over a source of length 100, second stage, before the residual
C6_Witness ==
    /\ pc = "enc_res"
    /\ encoder.kernel_size = 7
    /\ args.src.shape[2] = 100
    /\ i = 1
    /\ frame["conved"].shape[3] = 100

====
